---- MODULE Spec2Model ----
(***************************************************************************)
(* Lattice graph engine (src/src/graph/traverse.ts): the node index, the   *)
(* edge extractor, the bounded graph traversal and the drift detector.     *)
(*                                                                         *)
(* Identifiers are the numbers 0..NumNodes; identifier 0 never resolves    *)
(* (a dangling target, a missing start).  A version string is the sequence *)
(* of its '.'-separated fields; a field is a token that Number() turns     *)
(* into a number (kind "num"), into NaN (kind "text") or into 0 (the empty *)
(* field, kind "empty").  The value undefined is the empty sequence.       *)
(*                                                                         *)
(* The store (src/src/storage/add.ts, with the file loader) is the         *)
(* .lattice directory: one directory of files per kind, written by the add *)
(* commands of src/src/cli/index.ts and read by buildNodeIndex.  There an  *)
(* identifier is the sequence of its '-'-separated fields.                 *)
(***************************************************************************)
EXTENDS Integers, Sequences, FiniteSets, TLC

\* ---------------------------------------------------------------- bounds
NumNodes == 5
MaxDepthBound == 3
MaxComp == 2
MaxFiles == 3
MaxEdits == 1
NumTheses == 2
NumRequirements == 2

VARIABLES
  nodeIndex,   \* Map<string, AnyLatticeNode>, as the sequence of its entries in insertion order
  startId,     \* traverseGraph's startId
  direction,   \* traverseGraph's direction
  maxDepth,    \* traverseGraph's maxDepth
  visited,     \* traverseGraph's visited set
  result,      \* traverseGraph's result array
  stack,       \* the activations of traverse() that have not returned, innermost last
  arg,         \* the pending call traverse(arg.nodeId, arg.depth)
  reports,     \* findDrift's return value
  lattice,     \* the .lattice directory: one directory of files per kind
  cmd,         \* the command line of the last command run on the lattice
  pc,          \* where the program is
  exitCode,    \* the exit status of the last command's process
  data,        \* exportNarrative's data: the entities by kind
  exportOptions, \* exportNarrative's options
  output       \* exportNarrative's return value, as its lines

vars ==
  <<nodeIndex, startId, direction, maxDepth, visited, result, stack, arg, reports,
    lattice, cmd, pc, exitCode, data, exportOptions, output>>

\* ------------------------------------------------------------ data model
\* no lattice directory is read (the index is given), and no command was run
NoLattice == <<>>
NoCmd == [cmd |-> "none"]
\* nothing is exported
NoData == <<>>
NoOptions == [audience |-> "none"]

Ids == 0..NumNodes
NodeIds == 1..NumNodes
Directions == {"upstream", "downstream", "both"}
Depths == -1..MaxDepthBound

NumTok(n) == [k |-> "num", n |-> n]
TextTok == [k |-> "text", n |-> 0]
EmptyTok == [k |-> "empty", n |-> 0]
V(a, b, c) == <<NumTok(a), NumTok(b), NumTok(c)>>
Undefined == <<>>

NoArg == [nodeId |-> 0, depth |-> 0]

\* Map.has / Map.get on the index (a Map holds one entry per key)
Has(index, id) == \E i \in 1..Len(index) : index[i].id = id
Get(index, id) == index[CHOOSE i \in 1..Len(index) : index[i].id = id]

\* ---------------------------------------------------------- edge extractor
RECURSIVE FlattenBuckets(_)
FlattenBuckets(buckets) ==
  IF buckets = <<>> THEN <<>>
  ELSE (IF Head(buckets).isArray THEN Head(buckets).refs ELSE <<>>)
         \o FlattenBuckets(Tail(buckets))

getEdgeReferences(node) ==
  IF node.hasEdges THEN FlattenBuckets(node.edges) ELSE <<>>

\* ------------------------------------------------------------- traversal
\* line 92: if (depth > maxDepth || visited.has(nodeId)) return;
ShouldReturn_NoVisited(nodeId, depth, bound, seen) == depth > bound
ShouldReturn_NoDepth(nodeId, depth, bound, seen) == nodeId \in seen
ShouldReturn_Never(nodeId, depth, bound, seen) == FALSE
ShouldReturn_OffByOne(nodeId, depth, bound, seen) == depth >= bound \/ nodeId \in seen
ShouldReturn(nodeId, depth, bound, seen) == depth > bound \/ nodeId \in seen

\* lines 104-109: the edge pushed for an outbound reference
OutgoingEdge(ref) ==
  [type |-> "outgoing", target |-> ref.target, version |-> ref.version, direction |-> "outgoing"]

\* lines 121-126: the edge pushed for an inbound reference held by otherId
IncomingEdge(otherId, ref) ==
  [type |-> "incoming", target |-> otherId, version |-> ref.version, direction |-> "incoming"]

\* lines 101-102: the references the outgoing loop runs over
OutgoingRefs_Always(node, dir) == getEdgeReferences(node)
OutgoingRefs(node, dir) ==
  IF dir \in {"downstream", "both"} THEN getEdgeReferences(node) ELSE <<>>

\* lines 115-120: the (otherId, ref) pairs the incoming loops reach, in
\* index-iteration order then extractor order; the index is not changed
\* during a traversal, so the filter is taken once
RECURSIVE MatchingRefs(_, _, _)
MatchingRefs(otherId, refs, nodeId) ==
  IF refs = <<>> THEN <<>>
  ELSE (IF Head(refs).target = nodeId
          THEN <<[otherId |-> otherId, ref |-> Head(refs)]>> ELSE <<>>)
         \o MatchingRefs(otherId, Tail(refs), nodeId)

RECURSIVE ScanIndex(_, _, _)
ScanIndex(index, k, nodeId) ==
  IF k > Len(index) THEN <<>>
  ELSE (IF index[k].id = nodeId THEN <<>>
          ELSE MatchingRefs(index[k].id, getEdgeReferences(index[k]), nodeId))
         \o ScanIndex(index, k + 1, nodeId)

IncomingRefs(index, nodeId, dir) ==
  IF dir \in {"upstream", "both"} THEN ScanIndex(index, 1, nodeId) ELSE <<>>

\* traverse(nodeId, depth), lines 91-134, as a function of the closure's
\* state st = [visited, result]; ctx holds index, direction and maxDepth
RECURSIVE traverse(_, _, _, _)
RECURSIVE OutLoop(_, _, _, _)
RECURSIVE OutLoop_StopAtDangling(_, _, _, _)
RECURSIVE InLoop(_, _, _, _)

OutLoop_StopAtDangling(ctx, depth, refs, acc) ==
  IF refs = <<>> THEN acc
  ELSE LET ref == Head(refs)
           st2 == traverse(ctx, ref.target, depth + 1, acc.st)
       IN IF ~Has(ctx.index, ref.target)
            THEN [edges |-> Append(acc.edges, OutgoingEdge(ref)), st |-> st2]
            ELSE OutLoop_StopAtDangling(ctx, depth, Tail(refs),
                   [edges |-> Append(acc.edges, OutgoingEdge(ref)), st |-> st2])

OutLoop(ctx, depth, refs, acc) ==
  IF refs = <<>> THEN acc
  ELSE LET ref == Head(refs)
           st2 == traverse(ctx, ref.target, depth + 1, acc.st)
       IN OutLoop(ctx, depth, Tail(refs),
                  [edges |-> Append(acc.edges, OutgoingEdge(ref)), st |-> st2])

InLoop(ctx, depth, pairs, acc) ==
  IF pairs = <<>> THEN acc
  ELSE LET p == Head(pairs)
           st2 == traverse(ctx, p.otherId, depth + 1, acc.st)
       IN InLoop(ctx, depth, Tail(pairs),
                 [edges |-> Append(acc.edges, IncomingEdge(p.otherId, p.ref)), st |-> st2])

traverse(ctx, nodeId, depth, st) ==
  IF ShouldReturn(nodeId, depth, ctx.maxDepth, st.visited) THEN st
  ELSE LET st1 == [st EXCEPT !.visited = @ \cup {nodeId}] IN
       IF ~Has(ctx.index, nodeId) THEN st1
       ELSE LET node == Get(ctx.index, nodeId)
                o == OutLoop(ctx, depth, OutgoingRefs(node, ctx.direction),
                             [edges |-> <<>>, st |-> st1])
                i == InLoop(ctx, depth, IncomingRefs(ctx.index, nodeId, ctx.direction), o)
            IN [visited |-> i.st.visited,
                result |-> Append(i.st.result, [node |-> node, edges |-> i.edges])]

\* traverseGraph, lines 82-138
traverseGraph(start, index, dir, bound) ==
  traverse([index |-> index, direction |-> dir, maxDepth |-> bound], start, 0,
           [visited |-> {}, result |-> <<>>]).result

\* ------------------------------------------------ the lattices considered
\* The entities 1..NumNodes on a path 1 -> 2 -> ... -> NumNodes (bucket
\* depends_on), the path possibly cut at one link, with at most one further
\* edge ("chord") from any entity to any identifier (bucket conflicts_with,
\* before or after the path's bucket): a self-edge, a back edge closing a
\* cycle, a shortcut, a duplicate of a path edge or a dangling edge.  The
\* index lists the entities in ascending or in descending order.
NoChord == [has |-> FALSE, src |-> 1, tgt |-> 0, first |-> FALSE]
Chords ==
  {NoChord} \cup
  {[has |-> TRUE, src |-> s, tgt |-> t, first |-> f] : s \in NodeIds, t \in Ids, f \in BOOLEAN}
Cuts == 0..(NumNodes - 1)

PathBucket(i, cut) ==
  IF i < NumNodes /\ cut # i
    THEN <<[kind |-> "depends_on", isArray |-> TRUE,
            refs |-> <<[target |-> i + 1, version |-> V(1, i, 0)]>>]>>
    ELSE <<>>

ChordBucket(i, ch) ==
  IF ch.has /\ ch.src = i
    THEN <<[kind |-> "conflicts_with", isArray |-> TRUE,
            refs |-> <<[target |-> ch.tgt, version |-> V(2, i, 0)]>>]>>
    ELSE <<>>

Entity(i, cut, ch) ==
  LET buckets == IF ch.first THEN ChordBucket(i, ch) \o PathBucket(i, cut)
                 ELSE PathBucket(i, cut) \o ChordBucket(i, ch)
  IN [id |-> i,
      type |-> IF buckets = <<>> THEN "source" ELSE "requirement",
      version |-> V(1, 0, 0),
      hasEdges |-> buckets # <<>>,
      edges |-> buckets]

Lattice(cut, ch, asc) ==
  [k \in 1..NumNodes |-> Entity(IF asc THEN k ELSE NumNodes + 1 - k, cut, ch)]

Lattices == {Lattice(cut, ch, asc) : cut \in Cuts, ch \in Chords, asc \in BOOLEAN}

\* ------------------------------------------- traverseGraph as one call
Init ==
  /\ nodeIndex \in Lattices
  /\ startId \in Ids
  /\ direction \in Directions
  /\ maxDepth \in Depths
  /\ visited = {}
  /\ result = <<>>
  /\ stack = <<>>
  /\ arg = NoArg
  /\ reports = <<>>
  /\ lattice = NoLattice
  /\ cmd = NoCmd
  /\ exitCode = 0
  /\ data = NoData
  /\ exportOptions = NoOptions
  /\ output = <<>>
  /\ pc = "ready"

TraverseCall ==
  /\ pc = "ready"
  /\ result' = traverseGraph(startId, nodeIndex, direction, maxDepth)
  /\ pc' = "returned"
  /\ UNCHANGED <<nodeIndex, startId, direction, maxDepth, visited, stack, arg, reports, lattice, cmd, exitCode, data, exportOptions, output>>

Next == TraverseCall

Spec == Init /\ [][Next]_vars

\* --------------------------- traverseGraph step by step (the call stack)
\* The engine's stack is finite; no traversal of these lattices nests
\* deeper than one activation per identifier (StackWithinIds)
MaxStack == NumNodes + 2

Resume(stk) == IF stk = <<>> THEN "done" ELSE "loop"

Top == stack[Len(stack)]
SetTop(f) == [stack EXCEPT ![Len(stack)] = f]

\* line 98 and the two loops' inputs: the activation of traverse(nodeId, depth)
Frame(nodeId, depth) ==
  LET node == Get(nodeIndex, nodeId)
  IN [nodeId |-> nodeId, depth |-> depth, node |-> node,
      out |-> OutgoingRefs(node, direction),
      inc |-> IncomingRefs(nodeIndex, nodeId, direction),
      edges |-> <<>>]

InitSteps ==
  /\ nodeIndex \in Lattices
  /\ startId \in Ids
  /\ direction \in Directions
  /\ maxDepth \in Depths
  /\ visited = {}
  /\ result = <<>>
  /\ stack = <<>>
  /\ arg = [nodeId |-> startId, depth |-> 0]
  /\ reports = <<>>
  /\ lattice = NoLattice
  /\ cmd = NoCmd
  /\ exitCode = 0
  /\ data = NoData
  /\ exportOptions = NoOptions
  /\ output = <<>>
  /\ pc = "call"

\* lines 91-98: entry of traverse(arg.nodeId, arg.depth)
Enter ==
  /\ pc = "call"
  /\ IF ShouldReturn(arg.nodeId, arg.depth, maxDepth, visited)
       THEN /\ visited' = visited
            /\ stack' = stack
            /\ pc' = Resume(stack)
       ELSE /\ visited' = visited \cup {arg.nodeId}
            /\ IF ~Has(nodeIndex, arg.nodeId)
                 THEN /\ stack' = stack
                      /\ pc' = Resume(stack)
                 ELSE /\ Len(stack) < MaxStack
                      /\ stack' = Append(stack, Frame(arg.nodeId, arg.depth))
                      /\ pc' = "loop"
  /\ arg' = NoArg
  /\ UNCHANGED <<nodeIndex, startId, direction, maxDepth, result, reports, lattice, cmd, exitCode, data, exportOptions, output>>

\* lines 103-111: one iteration of the outgoing loop, up to the recursive call
StepOutgoing ==
  /\ pc = "loop"
  /\ Top.out # <<>>
  /\ LET ref == Head(Top.out)
     IN /\ stack' = SetTop([Top EXCEPT !.out = Tail(@),
                                       !.edges = Append(@, OutgoingEdge(ref))])
        /\ arg' = [nodeId |-> ref.target, depth |-> Top.depth + 1]
  /\ pc' = "call"
  /\ UNCHANGED <<nodeIndex, startId, direction, maxDepth, visited, result, reports, lattice, cmd, exitCode, data, exportOptions, output>>

\* lines 116-130: one matching reference of the incoming loops, up to the recursive call
StepIncoming ==
  /\ pc = "loop"
  /\ Top.out = <<>>
  /\ Top.inc # <<>>
  /\ LET p == Head(Top.inc)
     IN /\ stack' = SetTop([Top EXCEPT !.inc = Tail(@),
                                       !.edges = Append(@, IncomingEdge(p.otherId, p.ref))])
        /\ arg' = [nodeId |-> p.otherId, depth |-> Top.depth + 1]
  /\ pc' = "call"
  /\ UNCHANGED <<nodeIndex, startId, direction, maxDepth, visited, result, reports, lattice, cmd, exitCode, data, exportOptions, output>>

\* line 133: result.push(graphNode), and the return of this activation
Finish ==
  /\ pc = "loop"
  /\ Top.out = <<>>
  /\ Top.inc = <<>>
  /\ result' = Append(result, [node |-> Top.node, edges |-> Top.edges])
  /\ stack' = SubSeq(stack, 1, Len(stack) - 1)
  /\ pc' = Resume(stack')
  /\ UNCHANGED <<nodeIndex, startId, direction, maxDepth, visited, arg, reports, lattice, cmd, exitCode, data, exportOptions, output>>

NextSteps == Enter \/ StepOutgoing \/ StepIncoming \/ Finish

\* one thread runs the traversal to completion: it always takes its next step
SpecSteps == InitSteps /\ [][NextSteps]_vars /\ WF_vars(NextSteps)

\* the two models of traverseGraph agree, and the stack bound is never met
StepsAgreeWithCall ==
  pc = "done" => result = traverseGraph(startId, nodeIndex, direction, maxDepth)
StackWithinIds == Len(stack) <= NumNodes /\ Len(stack) < MaxStack

\* ------------------------------------------------------------------ drift
\* Number(field): a numeric field is its number, the empty field 0, other text NaN
ToNumber(tok) ==
  CASE tok.k = "num" -> [nan |-> FALSE, n |-> tok.n]
    [] tok.k = "empty" -> [nan |-> FALSE, n |-> 0]
    [] OTHER -> [nan |-> TRUE, n |-> 0]

\* lines 149-154: const [major = 0, minor = 0, patch = 0] = v.split('.').map(Number):
\* the default 0 stands in for a missing field only
Component(version, i) ==
  IF i <= Len(version) THEN ToNumber(version[i]) ELSE [nan |-> FALSE, n |-> 0]

\* a > b on JavaScript numbers: false as soon as one side is NaN
Greater(a, b) == ~a.nan /\ ~b.nan /\ a.n > b.n

\* line 147: !version, true of undefined and of the empty string
Falsy(version) == version = Undefined \/ version = <<EmptyTok>>

\* compareVersions, lines 143-160
compareVersions_MinorFirst(oldVersion, newVersion) ==
  IF Falsy(oldVersion) \/ Falsy(newVersion) THEN "none"
  ELSE IF Greater(Component(newVersion, 2), Component(oldVersion, 2)) THEN "minor"
  ELSE IF Greater(Component(newVersion, 1), Component(oldVersion, 1)) THEN "major"
  ELSE IF Greater(Component(newVersion, 3), Component(oldVersion, 3)) THEN "patch"
  ELSE "none"
compareVersions_MajorOnly(oldVersion, newVersion) ==
  IF Falsy(oldVersion) \/ Falsy(newVersion) THEN "none"
  ELSE IF Greater(Component(newVersion, 1), Component(oldVersion, 1)) THEN "major"
  ELSE "none"
compareVersions(oldVersion, newVersion) ==
  IF Falsy(oldVersion) \/ Falsy(newVersion) THEN "none"
  ELSE IF Greater(Component(newVersion, 1), Component(oldVersion, 1)) THEN "major"
  ELSE IF Greater(Component(newVersion, 2), Component(oldVersion, 2)) THEN "minor"
  ELSE IF Greater(Component(newVersion, 3), Component(oldVersion, 3)) THEN "patch"
  ELSE "none"

\* lines 173-187: the drift items of one entity's references
RECURSIVE DriftItems_StopAtDangling(_, _)
DriftItems_StopAtDangling(index, refs) ==
  IF refs = <<>> THEN <<>>
  ELSE LET ref == Head(refs) IN
       IF ~Has(index, ref.target) THEN <<>>
       ELSE LET targetNode == Get(index, ref.target)
                severity == compareVersions(ref.version, targetNode.version)
            IN (IF severity # "none"
                  THEN <<[edgeType |-> "edge", targetId |-> ref.target,
                          boundVersion |-> ref.version,
                          currentVersion |-> targetNode.version,
                          severity |-> severity]>>
                  ELSE <<>>)
                 \o DriftItems_StopAtDangling(index, Tail(refs))
RECURSIVE DriftItems(_, _)
DriftItems(index, refs) ==
  IF refs = <<>> THEN <<>>
  ELSE LET ref == Head(refs) IN
       IF ~Has(index, ref.target) THEN DriftItems(index, Tail(refs))
       ELSE LET targetNode == Get(index, ref.target)
                severity == compareVersions(ref.version, targetNode.version)
            IN (IF severity # "none"
                  THEN <<[edgeType |-> "edge", targetId |-> ref.target,
                          boundVersion |-> ref.version,
                          currentVersion |-> targetNode.version,
                          severity |-> severity]>>
                  ELSE <<>>)
                 \o DriftItems(index, Tail(refs))

\* lines 169-197: one report per entity of the index that has drift items
RECURSIVE DriftReports_KeepEmpty(_, _)
DriftReports_KeepEmpty(index, k) ==
  IF k > Len(index) THEN <<>>
  ELSE LET node == index[k]
           driftItems == DriftItems(index, getEdgeReferences(node))
       IN <<[nodeId |-> node.id, nodeType |-> node.type,
             currentVersion |-> node.version, driftItems |-> driftItems]>>
            \o DriftReports_KeepEmpty(index, k + 1)
RECURSIVE DriftReports(_, _)
DriftReports(index, k) ==
  IF k > Len(index) THEN <<>>
  ELSE LET node == index[k]
           driftItems == DriftItems(index, getEdgeReferences(node))
       IN (IF Len(driftItems) > 0
             THEN <<[nodeId |-> node.id, nodeType |-> node.type,
                     currentVersion |-> node.version, driftItems |-> driftItems]>>
             ELSE <<>>)
            \o DriftReports(index, k + 1)

\* findDrift, lines 165-200, on the index that buildNodeIndex returns (line 166)
findDrift(index) == DriftReports(index, 1)

\* The lattices considered for drift: a requirement (identifier 1) at any
\* current version; an implementation (identifier 2) with one satisfies edge,
\* bound at any version, to the requirement or to identifier 0, and at most
\* one further edge before or after it; a thesis (identifier 3) with at most
\* one edge to the requirement.  Identifier 0 never resolves.
WellFormedVersions == {V(a, b, c) : a, b, c \in 0..MaxComp}
MalformedVersions ==
  {Undefined, <<EmptyTok>>, <<NumTok(1)>>, <<NumTok(1), TextTok, NumTok(1)>>}
DriftVersions == WellFormedVersions \cup MalformedVersions
ExtraBounds == {V(0, 0, 0), V(1, 1, 1)}
ExtraRefs ==
  {<<>>} \cup {<<[target |-> t, version |-> b]>> : t \in {0, 1}, b \in ExtraBounds}
OtherRefs == {r \in ExtraRefs : r = <<>> \/ r[1].target = 1}

DriftLattice(current, target, bound, extra, first, other) ==
  <<[id |-> 1, type |-> "requirement", version |-> current,
     hasEdges |-> TRUE, edges |-> <<>>],
    [id |-> 2, type |-> "implementation", version |-> V(1, 0, 0),
     hasEdges |-> TRUE,
     edges |-> <<[kind |-> "satisfies", isArray |-> TRUE,
                  refs |-> IF first
                             THEN extra \o <<[target |-> target, version |-> bound]>>
                             ELSE <<[target |-> target, version |-> bound]>> \o extra]>>],
    [id |-> 3, type |-> "thesis", version |-> V(1, 0, 0),
     hasEdges |-> TRUE,
     edges |-> <<[kind |-> "supported_by", isArray |-> TRUE, refs |-> other]>>]>>

InitDrift ==
  /\ nodeIndex \in {DriftLattice(c, t, b, x, f, o) :
                     c \in DriftVersions, t \in {0, 1}, b \in DriftVersions,
                     x \in ExtraRefs, f \in BOOLEAN, o \in OtherRefs}
  /\ startId = 0
  /\ direction = "both"
  /\ maxDepth = 0
  /\ visited = {}
  /\ result = <<>>
  /\ stack = <<>>
  /\ arg = NoArg
  /\ reports = <<>>
  /\ lattice = NoLattice
  /\ cmd = NoCmd
  /\ exitCode = 0
  /\ data = NoData
  /\ exportOptions = NoOptions
  /\ output = <<>>
  /\ pc = "ready"

FindDriftCall ==
  /\ pc = "ready"
  /\ reports' = findDrift(nodeIndex)
  /\ pc' = "reported"
  /\ UNCHANGED <<nodeIndex, startId, direction, maxDepth, visited, result, stack, arg, lattice, cmd, exitCode, data, exportOptions, output>>

NextDrift == FindDriftCall

SpecDrift == InitDrift /\ [][NextDrift]_vars

\* ------------------------------------------------------------------ store
\* An identifier is the sequence of the fields between its dashes, a title
\* the sequence of its words.  A file is [sub, name, yaml, node]: the
\* subdirectory it lies in, the fields of its name before ".yaml", what its
\* text is ("entity", "syntax" for text the parser rejects, "null" for text
\* that parses to no entity) and the entity it holds.
SrcA == <<"SRC", "A">>
ThxA == <<"THX", "A">>
ReqA == <<"REQ", "A">>
ImpX == <<"IMP", "X">>
StoreIds == {SrcA, ThxA}
RequirementIds == {ReqA}
Titles == {<<"First">>, <<"Second">>}
Categories == {"CORE"}
Types == <<"sources", "theses", "requirements", "implementations">>

\* String.prototype.toLowerCase on the words of the model
toLowerCase(word) ==
  CASE word = "SRC" -> "src"
    [] word = "THX" -> "thx"
    [] word = "REQ" -> "req"
    [] word = "IMP" -> "imp"
    [] word = "A" -> "a"
    [] word = "X" -> "x"
    [] word = "CORE" -> "core"
    [] word = "First" -> "first"
    [] word = "Second" -> "second"
    [] OTHER -> word
LowerFields(fields) == [i \in 1..Len(fields) |-> toLowerCase(fields[i])]

\* .replace(/^src-/, '') and .replace(/^thx-/, ''): a leading field is taken
\* off when it is the prefix and a dash follows it
StripPrefix(fields, prefix) ==
  IF Len(fields) > 1 /\ fields[1] = prefix THEN Tail(fields) ELSE fields

\* options.id.split('-').pop() || '000'
IdNumber(id) == IF id[Len(id)] = "" THEN "000" ELSE id[Len(id)]

\* title.toLowerCase().replace(/[^a-z0-9]+/g, '-'), for titles of at most 40
\* characters: the words in lower case, joined by dashes
TitleSlug(title) == LowerFields(title)

\* makeEdgeRefs, lines 61-67: undefined (no array) for no targets
makeEdgeRefs(targets) ==
  IF targets = <<>> THEN [isArray |-> FALSE, refs |-> <<>>]
  ELSE [isArray |-> TRUE,
        refs |-> [i \in 1..Len(targets) |->
                    [target |-> targets[i], version |-> V(1, 0, 0)]]]
EdgeBucket(kind, targets) ==
  [kind |-> kind, isArray |-> makeEdgeRefs(targets).isArray,
   refs |-> makeEdgeRefs(targets).refs]

\* stringify followed by parse: a key whose value is undefined is left out
stringify(node) ==
  [node EXCEPT !.edges = SelectSeq(@, LAMBDA bucket : bucket.isArray)]

\* ensureDir and writeFileSync: the directory exists afterwards, and a file
\* of the same path is replaced; a new file comes last in the directory
SamePath(f, g) == f.sub = g.sub /\ f.name = g.name
writeFileSync(dir, file) ==
  [exists |-> TRUE,
   files |-> IF \E i \in 1..Len(dir.files) : SamePath(dir.files[i], file)
               THEN [i \in 1..Len(dir.files) |->
                       IF SamePath(dir.files[i], file) THEN file ELSE dir.files[i]]
               ELSE Append(dir.files, file)]

\* addRequirement, lines 72-118
addRequirement(latticeRoot, options) ==
  LET node == [id |-> options.id, type |-> "requirement", title |-> options.title,
               version |-> V(1, 0, 0), hasEdges |-> TRUE,
               edges |-> <<EdgeBucket("derives_from", options.derives_from),
                           EdgeBucket("depends_on", options.depends_on)>>]
      file == [sub |-> toLowerCase(options.category),
               name |-> <<IdNumber(options.id)>> \o TitleSlug(options.title),
               yaml |-> "entity", node |-> stringify(node)]
  IN [latticeRoot EXCEPT !.requirements = writeFileSync(@, file)]

\* addThesis, lines 123-158
addThesis(latticeRoot, options) ==
  LET node == [id |-> options.id, type |-> "thesis", title |-> options.title,
               version |-> V(1, 0, 0), hasEdges |-> TRUE,
               edges |-> <<EdgeBucket("supported_by", options.supported_by)>>]
      file == [sub |-> "", name |-> StripPrefix(LowerFields(options.id), "thx"),
               yaml |-> "entity", node |-> stringify(node)]
  IN [latticeRoot EXCEPT !.theses = writeFileSync(@, file)]

\* addSource, lines 163-195: the node has no edges field
addSource(latticeRoot, options) ==
  LET node == [id |-> options.id, type |-> "source", title |-> options.title,
               version |-> V(1, 0, 0), hasEdges |-> FALSE, edges |-> <<>>]
      file == [sub |-> "", name |-> StripPrefix(LowerFields(options.id), "src"),
               yaml |-> "entity", node |-> stringify(node)]
  IN [latticeRoot EXCEPT !.sources = writeFileSync(@, file)]

\* loadNode, lines 222-225: the parsed entity, null for text that holds no
\* entity; it throws on text the parser rejects
NullNode == [id |-> <<>>, type |-> "null", title |-> <<>>, version |-> Undefined,
             hasEdges |-> FALSE, edges |-> <<>>]
loadNode(file) ==
  CASE file.yaml = "entity" -> [threw |-> FALSE, node |-> file.node]
    [] file.yaml = "null" -> [threw |-> FALSE, node |-> NullNode]
    [] OTHER -> [threw |-> TRUE, node |-> NullNode]

\* walkDir, lines 249-263: readdirSync throws on a directory that does not
\* exist; a file that loadNode throws on is skipped
RECURSIVE LoadFiles(_)
LoadFiles(files) ==
  IF files = <<>> THEN <<>>
  ELSE (IF loadNode(Head(files)).threw THEN <<>> ELSE <<loadNode(Head(files)).node>>)
         \o LoadFiles(Tail(files))
walkDir(dir) ==
  IF dir.exists THEN [threw |-> FALSE, nodes |-> LoadFiles(dir.files)]
  ELSE [threw |-> TRUE, nodes |-> <<>>]

\* loadAllNodes, lines 246-270
loadAllNodes_NoGuard(dir) == walkDir(dir)
loadAllNodes(dir) ==
  IF dir.exists THEN walkDir(dir) ELSE [threw |-> FALSE, nodes |-> <<>>]

\* loadNodesByType, lines 275-281
loadNodesByType(latticeRoot, type) == loadAllNodes(latticeRoot[type])

\* index.set(node.id, node): a key already in the map keeps its place
IndexSet_KeepFirst(index, node) ==
  IF Has(index, node.id) THEN index ELSE Append(index, node)
IndexSet(index, node) ==
  IF Has(index, node.id)
    THEN [i \in 1..Len(index) |-> IF index[i].id = node.id THEN node ELSE index[i]]
    ELSE Append(index, node)

\* lines 53-55: reading node.id throws when the node is null
RECURSIVE SetAll(_, _)
SetAll(index, nodes) ==
  IF nodes = <<>> THEN [threw |-> FALSE, index |-> index]
  ELSE IF Head(nodes) = NullNode THEN [threw |-> TRUE, index |-> index]
  ELSE SetAll(IndexSet(index, Head(nodes)), Tail(nodes))

\* buildNodeIndex, lines 47-59, from type number k on
RECURSIVE BuildFrom(_, _, _)
BuildFrom(latticeRoot, k, index) ==
  IF k > Len(Types) THEN [threw |-> FALSE, index |-> index]
  ELSE LET loaded == loadNodesByType(latticeRoot, Types[k]) IN
       IF loaded.threw \/ SetAll(index, loaded.nodes).threw
         THEN [threw |-> TRUE, index |-> <<>>]
         ELSE BuildFrom(latticeRoot, k + 1, SetAll(index, loaded.nodes).index)
buildNodeIndex_SkipSources(latticeRoot) == BuildFrom(latticeRoot, 2, <<>>)
buildNodeIndex(latticeRoot) == BuildFrom(latticeRoot, 1, <<>>)

\* The lattice directory before any command: the add commands create the
\* directories they write to, an implementation is a file written by hand.
MissingDir == [exists |-> FALSE, files |-> <<>>]
EmptyDir == [exists |-> TRUE, files |-> <<>>]
ImpFile ==
  [sub |-> "", name |-> <<"imp", "x">>, yaml |-> "entity",
   node |-> [id |-> ImpX, type |-> "implementation", title |-> <<"First">>,
             version |-> V(1, 0, 0), hasEdges |-> TRUE,
             edges |-> <<[kind |-> "satisfies", isArray |-> TRUE,
                          refs |-> <<[target |-> ReqA, version |-> V(1, 0, 0)]>>],
                         [kind |-> "validates", isArray |-> TRUE,
                          refs |-> <<[target |-> ThxA, version |-> V(1, 0, 0)]>>]>>]]
InitialLattices ==
  {[sources |-> MissingDir, theses |-> MissingDir, requirements |-> MissingDir,
    implementations |-> MissingDir],
   [sources |-> EmptyDir, theses |-> MissingDir, requirements |-> EmptyDir,
    implementations |-> [exists |-> TRUE, files |-> <<ImpFile>>]]}

AllFiles(latticeRoot) ==
  latticeRoot.sources.files \o latticeRoot.theses.files
    \o latticeRoot.requirements.files \o latticeRoot.implementations.files

\* an edit of an entity bumps its version by one patch, minor or major step
Levels == {"patch", "minor", "major"}
bumpVersion(version, level) ==
  CASE level = "major" -> V(version[1].n + 1, 0, 0)
    [] level = "minor" -> V(version[1].n, version[2].n + 1, 0)
    [] OTHER -> V(version[1].n, version[2].n, version[3].n + 1)

\* the number of bumps that lead from 1.0.0 to the versions of the files
RECURSIVE Edits(_)
Edits(files) ==
  IF files = <<>> THEN 0
  ELSE LET version == Head(files).node.version
       IN (version[1].n - 1) + version[2].n + version[3].n + Edits(Tail(files))

InitStore ==
  /\ lattice \in InitialLattices
  /\ cmd = NoCmd
  /\ exitCode = 0
  /\ data = NoData
  /\ exportOptions = NoOptions
  /\ output = <<>>
  /\ nodeIndex = <<>>
  /\ startId = 0
  /\ direction = "both"
  /\ maxDepth = MaxDepthBound
  /\ visited = {}
  /\ result = <<>>
  /\ stack = <<>>
  /\ arg = NoArg
  /\ reports = <<>>
  /\ pc = "ready"

\* Every command is a process of its own: it starts with no index, no result
\* and no report, whatever an earlier command computed.

\* lattice add source, cli/index.ts lines 123-155
AddSourceCmd ==
  \E id \in StoreIds :
    LET options == [id |-> id, title |-> <<"First">>]
        written == addSource(lattice, options)
    IN /\ Len(AllFiles(written)) <= MaxFiles
       /\ lattice' = written
       /\ cmd' = [cmd |-> "add", id |-> id, targets |-> {}]
       /\ nodeIndex' = <<>>
       /\ result' = <<>>
       /\ reports' = <<>>
       /\ pc' = "added"
       /\ exitCode' = 0
       /\ UNCHANGED <<startId, direction, maxDepth, visited, stack, arg, data, exportOptions, output>>

\* lattice add thesis, cli/index.ts lines 89-120
AddThesisCmd ==
  \E id \in StoreIds, supported_by \in {<<>>, <<SrcA>>} :
    LET options == [id |-> id, title |-> <<"First">>, supported_by |-> supported_by]
        written == addThesis(lattice, options)
    IN /\ Len(AllFiles(written)) <= MaxFiles
       /\ lattice' = written
       /\ cmd' = [cmd |-> "add", id |-> id,
                  targets |-> {supported_by[i] : i \in 1..Len(supported_by)}]
       /\ nodeIndex' = <<>>
       /\ result' = <<>>
       /\ reports' = <<>>
       /\ pc' = "added"
       /\ exitCode' = 0
       /\ UNCHANGED <<startId, direction, maxDepth, visited, stack, arg, data, exportOptions, output>>

\* lattice add requirement, cli/index.ts lines 45-86
AddRequirementCmd ==
  \E id \in RequirementIds, title \in Titles, category \in Categories,
     edges \in {<<<<ThxA>>, <<SrcA>>>>} :
    LET options == [id |-> id, title |-> title, category |-> category,
                    derives_from |-> edges[1], depends_on |-> edges[2]]
        written == addRequirement(lattice, options)
    IN /\ Len(AllFiles(written)) <= MaxFiles
       /\ lattice' = written
       /\ cmd' = [cmd |-> "add", id |-> id,
                  targets |-> {edges[1][i] : i \in 1..Len(edges[1])}
                                \cup {edges[2][i] : i \in 1..Len(edges[2])}]
       /\ nodeIndex' = <<>>
       /\ result' = <<>>
       /\ reports' = <<>>
       /\ pc' = "added"
       /\ exitCode' = 0
       /\ UNCHANGED <<startId, direction, maxDepth, visited, stack, arg, data, exportOptions, output>>

\* an edit of one stored entity, which bumps its version
EditCmd ==
  \E type \in {Types[k] : k \in 1..Len(Types)}, level \in Levels :
    \E i \in 1..Len(lattice[type].files) :
      LET old == lattice[type].files[i].node.version
          new == bumpVersion(old, level)
          edited == [lattice EXCEPT ![type].files[i].node.version = new]
      IN /\ \A c \in 1..3 : new[c].n <= MaxComp
         /\ Edits(AllFiles(edited)) <= MaxEdits
         /\ lattice' = edited
         /\ cmd' = [cmd |-> "edit", id |-> lattice[type].files[i].node.id,
                    level |-> level, old |-> old]
         /\ nodeIndex' = <<>>
         /\ result' = <<>>
         /\ reports' = <<>>
         /\ pc' = "edited"
         /\ exitCode' = 0
         /\ UNCHANGED <<startId, direction, maxDepth, visited, stack, arg, data, exportOptions, output>>

\* cli/index.ts lines 204-229: the drift command returns when there is no
\* report, and exits with status 1 after printing the reports under --check
DriftExit_WheneverChecked(check, found) == IF check THEN 1 ELSE 0
DriftExit(check, found) ==
  IF Len(found) = 0 THEN 0
  ELSE IF check THEN 1 ELSE 0

\* lattice drift, cli/index.ts lines 191-231: findDrift(root), which builds
\* the index from the files (traverse.ts line 166); an exception that is
\* not caught ends the process with status 1
DriftCmd_ClearsSources ==
  LET built == buildNodeIndex(lattice)
  IN /\ nodeIndex' = built.index
     /\ reports' = IF built.threw THEN <<>> ELSE findDrift(built.index)
     /\ pc' = IF built.threw THEN "failed" ELSE "reported"
     /\ exitCode' = IF built.threw THEN 1 ELSE DriftExit(FALSE, reports')
     /\ cmd' = [cmd |-> "drift", check |-> FALSE]
     /\ result' = <<>>
     /\ lattice' = [lattice EXCEPT !.sources = EmptyDir]
     /\ UNCHANGED <<startId, direction, maxDepth, visited, stack, arg, data, exportOptions, output>>
DriftCmd ==
  LET built == buildNodeIndex(lattice)
  IN /\ nodeIndex' = built.index
     /\ reports' = IF built.threw THEN <<>> ELSE findDrift(built.index)
     /\ pc' = IF built.threw THEN "failed" ELSE "reported"
     /\ exitCode' = IF built.threw THEN 1 ELSE DriftExit(FALSE, reports')
     /\ cmd' = [cmd |-> "drift", check |-> FALSE]
     /\ result' = <<>>
     /\ UNCHANGED <<lattice, startId, direction, maxDepth, visited, stack, arg, data, exportOptions, output>>

\* a query of the graph engine: buildNodeIndex(root), then traverseGraph
TraverseCmd ==
  \E start \in RequirementIds :
    LET built == buildNodeIndex(lattice)
    IN /\ nodeIndex' = built.index
       /\ result' = IF built.threw THEN <<>>
                    ELSE traverseGraph(start, built.index, direction, maxDepth)
       /\ pc' = IF built.threw THEN "failed" ELSE "traversed"
       /\ exitCode' = IF built.threw THEN 1 ELSE 0
       /\ cmd' = [cmd |-> "traverse", startId |-> start]
       /\ reports' = <<>>
       /\ UNCHANGED <<lattice, startId, direction, maxDepth, visited, stack, arg, data, exportOptions, output>>

NextStore ==
  \/ AddSourceCmd
  \/ AddThesisCmd
  \/ AddRequirementCmd
  \/ EditCmd
  \/ DriftCmd
  \/ TraverseCmd

SpecStore == InitStore /\ [][NextStore]_vars

\* ------------------------------------- lattices with hand-written files
\* Lattice directories as they are found on disk: files written by the add
\* commands or by hand, a thesis that was edited since, and possibly one
\* .yaml file that holds no entity: text the parser rejects ("broken") or
\* an empty document ("null").
BadKinds == {"broken", "null"}
BadFile(kind) == [sub |-> "", name |-> <<"bad">>, yaml |-> kind, node |-> NullNode]
SourceFile ==
  [sub |-> "", name |-> <<"a">>, yaml |-> "entity",
   node |-> [id |-> SrcA, type |-> "source", title |-> <<"First">>,
             version |-> V(1, 0, 0), hasEdges |-> FALSE, edges |-> <<>>]]
ThesisFile(version) ==
  [sub |-> "", name |-> <<"a">>, yaml |-> "entity",
   node |-> [id |-> ThxA, type |-> "thesis", title |-> <<"First">>,
             version |-> version, hasEdges |-> TRUE, edges |-> <<>>]]
Dir(files) == [exists |-> TRUE, files |-> files]

\* the identifiers and kinds given to lattice add
AnyIds == {<<"A">>, SrcA, ThxA, ReqA}
AddKinds == {"source", "thesis", "requirement"}

InitFiles ==
  /\ \E bad \in BadKinds, v \in {V(1, 0, 0), V(1, 1, 0)} :
       \E sources \in {<<>>, <<SourceFile>>, <<BadFile(bad)>>,
                       <<BadFile(bad), SourceFile>>, <<SourceFile, BadFile(bad)>>},
          theses \in {<<>>, <<ThesisFile(v)>>},
          implementations \in {<<>>, <<ImpFile>>} :
         lattice = [sources |-> Dir(sources), theses |-> Dir(theses),
                    requirements |-> MissingDir,
                    implementations |-> Dir(implementations)]
  /\ cmd = NoCmd
  /\ exitCode = 0
  /\ data = NoData
  /\ exportOptions = NoOptions
  /\ output = <<>>
  /\ nodeIndex = <<>>
  /\ startId = 0
  /\ direction = "both"
  /\ maxDepth = MaxDepthBound
  /\ visited = {}
  /\ result = <<>>
  /\ stack = <<>>
  /\ arg = NoArg
  /\ reports = <<>>
  /\ pc = "ready"

\* lattice add requirement | thesis | source, cli/index.ts lines 47-155,
\* with any identifier
AddCmd ==
  \E kind \in AddKinds, id \in AnyIds :
    LET title == <<"First">>
        written ==
          CASE kind = "source" -> addSource(lattice, [id |-> id, title |-> title])
            [] kind = "thesis" ->
                 addThesis(lattice, [id |-> id, title |-> title, supported_by |-> <<>>])
            [] OTHER ->
                 addRequirement(lattice, [id |-> id, title |-> title, category |-> "CORE",
                                          derives_from |-> <<>>, depends_on |-> <<>>])
    IN /\ Len(AllFiles(written)) <= MaxFiles
       /\ lattice' = written
       /\ cmd' = [cmd |-> "add", id |-> id, targets |-> {}]
       /\ nodeIndex' = <<>>
       /\ result' = <<>>
       /\ reports' = <<>>
       /\ pc' = "added"
       /\ exitCode' = 0
       /\ UNCHANGED <<startId, direction, maxDepth, visited, stack, arg, data, exportOptions, output>>

\* lattice drift --check, cli/index.ts lines 191-231
DriftCheckCmd ==
  LET built == buildNodeIndex(lattice)
  IN /\ nodeIndex' = built.index
     /\ reports' = IF built.threw THEN <<>> ELSE findDrift(built.index)
     /\ pc' = IF built.threw THEN "failed" ELSE "reported"
     /\ exitCode' = IF built.threw THEN 1 ELSE DriftExit(TRUE, reports')
     /\ cmd' = [cmd |-> "drift", check |-> TRUE]
     /\ result' = <<>>
     /\ UNCHANGED <<lattice, startId, direction, maxDepth, visited, stack, arg, data, exportOptions, output>>

NextFiles ==
  \/ AddCmd
  \/ DriftCmd
  \/ DriftCheckCmd
  \/ TraverseCmd

SpecFiles == InitFiles /\ [][NextFiles]_vars

\* --------------------------------------------------------- exportNarrative
\* export/narrative.ts.  A string of the data (identifier, title, body,
\* citation) is a pair <<word, number>>; a line of the document is the
\* template of its push with the strings and the numbers interpolated in
\* it, and the document is the sequence of its lines (lines.join('\n')).
\* Bodies are one trimmed line of fewer than 80 characters, so that
\* body.split('\n')[0].trim().substring(0, 80) and body.trim() are the body.
Line(text, strs, nums) == [text |-> text, strs |-> strs, nums |-> nums]
Blank == Line("", <<>>, <<>>)

RECURSIVE Targets(_)
Targets(edges) ==
  IF edges = <<>> THEN {} ELSE {Head(edges).target} \cup Targets(Tail(edges))

\* lines 33-37
isVisible(node, includeInternal) ==
  IF includeInternal THEN TRUE ELSE node.visibility # "internal"

\* options.includeInternal || false, options.title || 'Lattice'
IncludeInternal(opts) == opts.includeInternal = "true"
DocTitle(opts) == IF opts.title = <<>> THEN <<"Lattice", 0>> ELSE opts.title

\* lines 42-49
getSourcesForThesis(thesis, sources) ==
  SelectSeq(sources, LAMBDA s : s.id \in Targets(thesis.supported_by))

\* lines 58-65 and 236-241: the targets of all satisfies edges
RECURSIVE ImplementedIds(_)
ImplementedIds(implementations) ==
  IF implementations = <<>> THEN {}
  ELSE Targets(Head(implementations).satisfies) \cup ImplementedIds(Tail(implementations))

\* lines 54-72
countImplemented(requirements, implementations) ==
  [implemented |-> Len(SelectSeq(requirements,
                         LAMBDA r : r.id \in ImplementedIds(implementations))),
   total |-> Len(requirements)]

\* lines 77-93, for the priorities P0, P1, P2 and none
groupByPriority(requirements) ==
  [P0 |-> SelectSeq(requirements, LAMBDA r : r.priority = "P0"),
   P1 |-> SelectSeq(requirements, LAMBDA r : r.priority = "P1"),
   P2 |-> SelectSeq(requirements, LAMBDA r : r.priority \in {"P2", "undefined"})]

\* Math.round((implemented / total) * 100) || 0: halves are rounded up, and
\* 0 / 0 is NaN, which || replaces by 0
Percent(progress) ==
  IF progress.total = 0 THEN 0
  ELSE (200 * progress.implemented + progress.total) \div (2 * progress.total)

\* lines 139-143: the research support of one thesis
RECURSIVE SourceLines(_)
SourceLines(sources) ==
  IF sources = <<>> THEN <<>>
  ELSE <<Line("- ${source.title} (${citation})",
              <<Head(sources).title, Head(sources).citation>>, <<>>)>>
         \o SourceLines(Tail(sources))

\* lines 129-149
RECURSIVE ThesisLines(_, _)
ThesisLines(theses, sources) ==
  IF theses = <<>> THEN <<>>
  ELSE LET thesis == Head(theses)
           supportingSources == getSourcesForThesis(thesis, sources)
       IN <<Line("### ${thesis.title}", <<thesis.title>>, <<>>), Blank,
            Line("${thesis.body}", <<thesis.body>>, <<>>), Blank>>
          \o (IF Len(supportingSources) > 0
                THEN <<Line("**Research Support:**", <<>>, <<>>)>>
                       \o SourceLines(supportingSources) \o <<Blank>>
                ELSE <<>>)
          \o <<Line("---", <<>>, <<>>), Blank>>
          \o ThesisLines(Tail(theses), sources)

\* lines 157-191: the table of one priority
RECURSIVE RowLines(_)
RowLines(requirements) ==
  IF requirements = <<>> THEN <<>>
  ELSE <<Line("| ${req.title} | ${desc} |",
              <<Head(requirements).title, Head(requirements).body>>, <<>>)>>
         \o RowLines(Tail(requirements))
TableLines(heading, requirements) ==
  IF Len(requirements) > 0
    THEN <<Line(heading, <<>>, <<>>), Blank,
           Line("| Requirement | Description |", <<>>, <<>>),
           Line("|-------------|-------------|", <<>>, <<>>)>>
         \o RowLines(requirements) \o <<Blank>>
    ELSE <<>>

\* lines 202-210
RECURSIVE ImplementationLines(_)
ImplementationLines(implementations) ==
  IF implementations = <<>> THEN <<>>
  ELSE <<Line("- **${impl.title}** - satisfies ${satisfies.length} requirement(s)",
              <<Head(implementations).title>>, <<Len(Head(implementations).satisfies)>>)>>
         \o ImplementationLines(Tail(implementations))

\* lines 98-220
generateInvestorNarrative(latticeData, opts) ==
  LET includeInternal == IncludeInternal(opts)
      visibleTheses == SelectSeq(latticeData.theses, LAMBDA t : isVisible(t, includeInternal))
      visibleReqs == SelectSeq(latticeData.requirements, LAMBDA r : isVisible(r, includeInternal))
      progress == countImplemented(visibleReqs, latticeData.implementations)
      byPriority == groupByPriority(visibleReqs)
  IN <<Line("# ${title}", <<DocTitle(opts)>>, <<>>), Blank>>
     \o (IF Len(visibleTheses) > 0
           THEN <<Line("> *${mainThesis.body}*", <<visibleTheses[1].body>>, <<>>), Blank>>
           ELSE <<>>)
     \o <<Line("---", <<>>, <<>>), Blank, Line("## Strategic Thesis", <<>>, <<>>), Blank>>
     \o ThesisLines(visibleTheses, latticeData.sources)
     \o <<Line("## What We're Building", <<>>, <<>>), Blank>>
     \o TableLines("### Core Platform (P0 - MVP)", byPriority.P0)
     \o TableLines("### Extended Features (P1 - Beta)", byPriority.P1)
     \o TableLines("### Future Enhancements (P2)", byPriority.P2)
     \o <<Line("## Progress", <<>>, <<>>), Blank,
          Line("**${implemented} of ${total} requirements implemented (${pct}%)**", <<>>,
               <<progress.implemented, progress.total, Percent(progress)>>),
          Blank>>
     \o (IF Len(latticeData.implementations) > 0
           THEN <<Line("### Implementations", <<>>, <<>>), Blank>>
                  \o ImplementationLines(latticeData.implementations) \o <<Blank>>
           ELSE <<>>)
     \o <<Line("---", <<>>, <<>>), Blank,
          Line("*This document was auto-generated from the Lattice knowledge graph.*",
               <<>>, <<>>)>>

\* lines 259-279: the open requirements of one priority; the requirements
\* considered have no acceptance criteria
RECURSIVE OpenLines(_)
OpenLines(requirements) ==
  IF requirements = <<>> THEN <<>>
  ELSE <<Line("#### ${req.id}: ${req.title}",
              <<Head(requirements).id, Head(requirements).title>>, <<>>), Blank,
         Line("${req.body}", <<Head(requirements).body>>, <<>>), Blank>>
         \o OpenLines(Tail(requirements))
PriorityLines(priority, requirements, implementedIds) ==
  LET reqs == SelectSeq(requirements, LAMBDA r : r.id \notin implementedIds)
  IN IF Len(reqs) > 0
       THEN <<Line("### ${priority} Priority", <<<<priority, 0>>>>, <<>>), Blank>>
              \o OpenLines(reqs)
       ELSE <<>>

\* lines 283-285
RECURSIVE CompletedLines(_)
CompletedLines(requirements) ==
  IF requirements = <<>> THEN <<>>
  ELSE <<Line("- done ${req.id}: ${req.title}",
              <<Head(requirements).id, Head(requirements).title>>, <<>>)>>
         \o CompletedLines(Tail(requirements))

\* lines 225-295
generateContributorNarrative(latticeData, opts) ==
  LET includeInternal == IncludeInternal(opts)
      visibleReqs == SelectSeq(latticeData.requirements, LAMBDA r : isVisible(r, includeInternal))
      progress == countImplemented(visibleReqs, latticeData.implementations)
      implementedIds == ImplementedIds(latticeData.implementations)
      byPriority == groupByPriority(visibleReqs)
  IN <<Line("# Contributing to ${title}", <<DocTitle(opts)>>, <<>>), Blank,
       Line("**${open} requirements need implementation**", <<>>,
            <<progress.total - progress.implemented>>),
       Blank, Line("---", <<>>, <<>>), Blank,
       Line("## Open Requirements", <<>>, <<>>), Blank>>
     \o PriorityLines("P0", byPriority.P0, implementedIds)
     \o PriorityLines("P1", byPriority.P1, implementedIds)
     \o PriorityLines("P2", byPriority.P2, implementedIds)
     \o <<Line("## Completed", <<>>, <<>>), Blank>>
     \o CompletedLines(SelectSeq(visibleReqs, LAMBDA r : r.id \in implementedIds))
     \o <<Blank, Line("---", <<>>, <<>>), Blank,
          Line("*This document was auto-generated from the Lattice knowledge graph.*",
               <<>>, <<>>)>>

\* lines 320-322: visibleTheses.slice(0, 3)
RECURSIVE WhyLines(_, _)
WhyLines(theses, n) ==
  IF theses = <<>> \/ n = 0 THEN <<>>
  ELSE <<Line("- **${thesis.title}**", <<Head(theses).title>>, <<>>)>>
         \o WhyLines(Tail(theses), n - 1)

\* lines 300-352
generateOverviewNarrative(latticeData, opts) ==
  LET includeInternal == IncludeInternal(opts)
      visibleTheses == SelectSeq(latticeData.theses, LAMBDA t : isVisible(t, includeInternal))
      visibleReqs == SelectSeq(latticeData.requirements, LAMBDA r : isVisible(r, includeInternal))
      progress == countImplemented(visibleReqs, latticeData.implementations)
      byPriority == groupByPriority(visibleReqs)
  IN <<Line("# ${title} Overview", <<DocTitle(opts)>>, <<>>), Blank>>
     \o (IF Len(visibleTheses) > 0
           THEN <<Line("## Why", <<>>, <<>>), Blank>> \o WhyLines(visibleTheses, 3) \o <<Blank>>
           ELSE <<>>)
     \o <<Line("## What", <<>>, <<>>), Blank,
          Line("${count} requirements across ${categories} categories.", <<>>,
               <<Len(visibleReqs),
                 Cardinality({visibleReqs[i].category : i \in 1..Len(visibleReqs)})>>),
          Blank,
          Line("- **P0 (MVP):** ${count} requirements", <<>>, <<Len(byPriority.P0)>>),
          Line("- **P1 (Beta):** ${count} requirements", <<>>, <<Len(byPriority.P1)>>),
          Line("- **P2 (Future):** ${count} requirements", <<>>, <<Len(byPriority.P2)>>),
          Blank,
          Line("## Progress", <<>>, <<>>), Blank,
          Line("${implemented}/${total} implemented (${pct}%)", <<>>,
               <<progress.implemented, progress.total, Percent(progress)>>),
          Blank, Line("---", <<>>, <<>>), Blank,
          Line("*Auto-generated from the Lattice knowledge graph.*", <<>>, <<>>)>>

\* lines 357-371
exportNarrative(latticeData, opts) ==
  CASE opts.audience = "investor" -> generateInvestorNarrative(latticeData, opts)
    [] opts.audience = "contributor" -> generateContributorNarrative(latticeData, opts)
    [] OTHER -> generateOverviewNarrative(latticeData, opts)

\* The data considered: one source, NumTheses theses of which any may be
\* supported by the source, NumRequirements requirements of the priorities
\* P0, none, P1, P2, ... in turn, and one implementation that satisfies the
\* first few requirements; any entity may be marked internal.
Visibilities == {"internal", "undefined"}
Audiences == {"investor", "contributor", "overview"}
Flags == {"true", "false", "undefined"}
Priorities == <<"P0", "undefined", "P1", "P2">>
TitleWords == [SRC |-> "Source", THX |-> "Thesis", REQ |-> "Requirement", IMP |-> "Implementation"]
BodyWords == [SRC |-> "About source", THX |-> "About thesis", REQ |-> "About requirement",
              IMP |-> "About implementation"]
EdgesTo(word, ns) == [k \in 1..Len(ns) |-> [target |-> <<word, ns[k]>>, version |-> V(1, 0, 0)]]
ExportNode(word, i, visibility, priority, supported_by, satisfies) ==
  [id |-> <<word, i>>, title |-> <<TitleWords[word], i>>, body |-> <<BodyWords[word], i>>,
   citation |-> <<"Citation", i>>, category |-> "core",
   visibility |-> visibility, priority |-> priority,
   supported_by |-> supported_by, satisfies |-> satisfies]
FirstN(n) == [k \in 1..n |-> k]

InitExport ==
  /\ \E vs, vi \in Visibilities,
        vt \in [1..NumTheses -> Visibilities],
        vr \in [1..NumRequirements -> Visibilities],
        supported \in SUBSET (1..NumTheses),
        satisfied \in 0..NumRequirements :
       data =
         [sources |-> <<ExportNode("SRC", 1, vs, "undefined", <<>>, <<>>)>>,
          theses |->
            [i \in 1..NumTheses |->
               ExportNode("THX", i, vt[i], "undefined",
                          IF i \in supported THEN EdgesTo("SRC", <<1>>) ELSE <<>>, <<>>)],
          requirements |->
            [i \in 1..NumRequirements |->
               ExportNode("REQ", i, vr[i], Priorities[((i - 1) % 4) + 1], <<>>, <<>>)],
          implementations |->
            <<ExportNode("IMP", 1, vi, "undefined", <<>>,
                         EdgesTo("REQ", FirstN(satisfied)))>>]
  /\ \E audience \in Audiences, includeInternal \in Flags :
       exportOptions = [audience |-> audience, includeInternal |-> includeInternal,
                        title |-> <<>>]
  /\ output = <<>>
  /\ exitCode = 0
  /\ lattice = NoLattice
  /\ cmd = NoCmd
  /\ nodeIndex = <<>>
  /\ startId = 0
  /\ direction = "both"
  /\ maxDepth = 0
  /\ visited = {}
  /\ result = <<>>
  /\ stack = <<>>
  /\ arg = NoArg
  /\ reports = <<>>
  /\ pc = "ready"

\* cli/index.ts lines 311-320: exportNarrative on the loaded entities
ExportCall ==
  /\ pc = "ready"
  /\ output' = exportNarrative(data, exportOptions)
  /\ pc' = "exported"
  /\ UNCHANGED <<nodeIndex, startId, direction, maxDepth, visited, result, stack, arg,
                 reports, lattice, cmd, exitCode, data, exportOptions>>

NextExport == ExportCall

SpecExport == InitExport /\ [][NextExport]_vars

\* ------------------------------------------------------------------ claims
Done == pc = "done"
Returned == pc = "returned"

\* the identifiers of the entries of a traversal result, in order
RECURSIVE IdsOf(_)
IdsOf(res) == IF res = <<>> THEN <<>> ELSE <<Head(res).node.id>> \o IdsOf(Tail(res))
IdSet(res) == {res[i].node.id : i \in 1..Len(res)}

\* C1: for every index (cycles, self-edges and dangling targets included),
\* every start identifier, direction and maxDepth, traverseGraph terminates:
\* every run of the traversal reaches its return.
C1_Terminates == <>Done

\* C1 witness: a traversal in both directions at the largest depth bound has
\* returned both entities of a two-entity cycle a -> b -> a.
C1_Witness ==
  /\ Done
  /\ direction = "both"
  /\ maxDepth = MaxDepthBound
  /\ \E a, b \in IdSet(result) :
       /\ a # b
       /\ \E r \in 1..Len(getEdgeReferences(Get(nodeIndex, a))) :
            getEdgeReferences(Get(nodeIndex, a))[r].target = b
       /\ \E r \in 1..Len(getEdgeReferences(Get(nodeIndex, b))) :
            getEdgeReferences(Get(nodeIndex, b))[r].target = a

\* C2: no entity appears more than once in the result of traverseGraph,
\* however many paths lead to it.
C2_NoDuplicates ==
  Returned => \A i, j \in 1..Len(result) : i # j => result[i].node.id # result[j].node.id

\* C2 witness: a downstream traversal returned an entity that two other
\* returned entities both point to (two paths lead to it).
C2_Witness ==
  /\ Returned
  /\ direction = "downstream"
  /\ \E i, j, k \in 1..Len(result) :
       /\ i # j /\ i # k /\ j # k
       /\ \E e \in 1..Len(result[i].edges) : result[i].edges[e].target = result[k].node.id
       /\ \E e \in 1..Len(result[j].edges) : result[j].edges[e].target = result[k].node.id

\* b is one edge away from a in direction dir, both being entities of the index
Linked(index, a, b) ==
  /\ Has(index, a) /\ Has(index, b)
  /\ \E r \in 1..Len(getEdgeReferences(Get(index, a))) :
       getEdgeReferences(Get(index, a))[r].target = b
Adjacent(index, dir, a, b) ==
  \/ dir \in {"downstream", "both"} /\ Linked(index, a, b)
  \/ dir \in {"upstream", "both"} /\ Linked(index, b, a)

\* the entities joined to those of S by a path of at most k edges in direction dir
RECURSIVE Ball(_, _, _, _)
Ball(index, dir, S, k) ==
  IF k <= 0 THEN S
  ELSE Ball(index, dir,
            S \cup {b \in {index[i].id : i \in 1..Len(index)} :
                      \E a \in S : Adjacent(index, dir, a, b)},
            k - 1)
Within(index, start, dir, k) ==
  IF k < 0 \/ ~Has(index, start) THEN {} ELSE Ball(index, dir, {start}, k)

\* C3: every entity of the result is joined to the start by a path of at
\* most maxDepth edges followed in the chosen direction; with maxDepth = 0
\* the result holds at most the start entity.
C3_DepthBound ==
  Returned =>
    /\ IdSet(result) \subseteq Within(nodeIndex, startId, direction, maxDepth)
    /\ (maxDepth = 0 => IdSet(result) \subseteq {startId})

\* C3 witness: a traversal with a bound of at least one edge returned
\* several entities and left out an entity that is connected to the start
\* only by longer paths.
C3_Witness ==
  /\ Returned
  /\ maxDepth >= 1
  /\ Len(result) >= 2
  /\ \E x \in Within(nodeIndex, startId, direction, NumNodes) :
       /\ x \notin Within(nodeIndex, startId, direction, maxDepth)
       /\ x \notin IdSet(result)

\* C4: every indexed entity joined to a resolvable start by a path of at
\* most maxDepth edges (in the chosen direction, through indexed entities)
\* is in the result, for every graph shape.
C4_ReachableAreReturned ==
  Returned => Within(nodeIndex, startId, direction, maxDepth) \subseteq IdSet(result)

\* C5: if B is in the result of the downstream traversal from A with bound
\* N, then A is in the result of the upstream traversal from B with bound N.
C5_UpDownSymmetry ==
  (Returned /\ direction = "downstream") =>
    \A b \in IdSet(result) :
      startId \in IdSet(traverseGraph(b, nodeIndex, "upstream", maxDepth))

\* orderings of the same entities and edges: the index reversed, the
\* buckets of every entity reversed
RECURSIVE Reverse(_)
Reverse(seq) == IF seq = <<>> THEN <<>> ELSE Append(Reverse(Tail(seq)), Head(seq))
ReverseBuckets(index) ==
  [i \in 1..Len(index) |-> [index[i] EXCEPT !.edges = Reverse(@)]]
Reorderings(index) ==
  {Reverse(index), ReverseBuckets(index), Reverse(ReverseBuckets(index))}

\* C6: the set of identifiers in the result is the same for every ordering
\* of the edges inside the entities and of the entities in the index.
C6_OrderIndependent ==
  Returned =>
    \A other \in Reorderings(nodeIndex) :
      IdSet(traverseGraph(startId, other, direction, maxDepth)) = IdSet(result)

\* C7: a traversal with a larger maxDepth returns at least as many entities.
C7_DepthMonotone ==
  Returned =>
    \A deeper \in Depths :
      deeper >= maxDepth =>
        Len(traverseGraph(startId, nodeIndex, direction, deeper)) >= Len(result)

\* the edges traverseGraph is to attach to entity e: its own references as
\* outgoing edges (downstream, both), then the references of the other
\* entities that target it as incoming edges (upstream, both)
OwnOutgoing(e) ==
  [r \in 1..Len(getEdgeReferences(e)) |->
     [type |-> "outgoing", target |-> getEdgeReferences(e)[r].target,
      version |-> getEdgeReferences(e)[r].version, direction |-> "outgoing"]]
OwnIncoming(index, e) ==
  LET pairs == ScanIndex(index, 1, e.id)
  IN [r \in 1..Len(pairs) |->
        [type |-> "incoming", target |-> pairs[r].otherId,
         version |-> pairs[r].ref.version, direction |-> "incoming"]]
OwnEdges(index, e, dir) ==
  (IF dir = "upstream" THEN <<>> ELSE OwnOutgoing(e))
    \o (IF dir = "downstream" THEN <<>> ELSE OwnIncoming(index, e))

\* C8: for maxDepth >= 0 the result is empty exactly when the start does
\* not resolve (a normal return); when it resolves, the start entity is in
\* the result with its own edges attached.
C8_StartResolution ==
  (Returned /\ maxDepth >= 0) =>
    /\ (result = <<>>) <=> ~Has(nodeIndex, startId)
    /\ Has(nodeIndex, startId) =>
         \E i \in 1..Len(result) :
           /\ result[i].node = Get(nodeIndex, startId)
           /\ result[i].edges = OwnEdges(nodeIndex, result[i].node, direction)

\* C8 witness: a traversal in both directions from a resolved start returned
\* the start with an outgoing and an incoming edge attached.
C8_Witness ==
  /\ Returned
  /\ maxDepth >= 0
  /\ direction = "both"
  /\ \E i \in 1..Len(result) :
       /\ result[i].node.id = startId
       /\ \E e, f \in 1..Len(result[i].edges) :
            /\ result[i].edges[e].direction = "outgoing"
            /\ result[i].edges[f].direction = "incoming"

Reported == pc = "reported"

WellFormed(version) ==
  Len(version) = 3 /\ \A i \in 1..3 : version[i].k = "num"

\* findDrift reports reference ref of entity id with severity sev
ReportedAs(id, ref, sev) ==
  \E r \in 1..Len(reports) :
    /\ reports[r].nodeId = id
    /\ \E d \in 1..Len(reports[r].driftItems) :
         /\ reports[r].driftItems[d].targetId = ref.target
         /\ reports[r].driftItems[d].boundVersion = ref.version
         /\ reports[r].driftItems[d].severity = sev

\* the edges of the index, as [id, ref], and those among them with a
\* resolved target and well-formed versions on both sides
EdgesOf(index) ==
  UNION {{[id |-> index[i].id, ref |-> getEdgeReferences(index[i])[r]] :
            r \in 1..Len(getEdgeReferences(index[i]))} : i \in 1..Len(index)}
WellFormedEdges(index) ==
  {e \in EdgesOf(index) :
     /\ Has(index, e.ref.target)
     /\ WellFormed(e.ref.version)
     /\ WellFormed(Get(index, e.ref.target).version)}
Bound(e, i) == e.ref.version[i].n
Current(index, e, i) == Get(index, e.ref.target).version[i].n

\* C9: for well-formed versions, an edge with a resolved target is reported
\* with severity major exactly when the target's current major component is
\* greater than the bound major component, whatever minor and patch are.
C9_MajorSeverity ==
  Reported =>
    \A e \in WellFormedEdges(nodeIndex) :
      ReportedAs(e.id, e.ref, "major") <=> Current(nodeIndex, e, 1) > Bound(e, 1)

\* C9 witness: findDrift reported an edge as major although the target's
\* current minor and patch components are below the bound ones.
C9_Witness ==
  /\ Reported
  /\ \E e \in WellFormedEdges(nodeIndex) :
       /\ ReportedAs(e.id, e.ref, "major")
       /\ Current(nodeIndex, e, 2) < Bound(e, 2)
       /\ Current(nodeIndex, e, 3) < Bound(e, 3)

\* C10: for well-formed versions, an edge is reported minor exactly when the
\* majors are equal and current.minor > bound.minor, and patch exactly when
\* majors and minors are equal and current.patch > bound.patch.
C10_MinorPatchSeverity ==
  Reported =>
    \A e \in WellFormedEdges(nodeIndex) :
      /\ ReportedAs(e.id, e.ref, "minor") <=>
           /\ Current(nodeIndex, e, 1) = Bound(e, 1)
           /\ Current(nodeIndex, e, 2) > Bound(e, 2)
      /\ ReportedAs(e.id, e.ref, "patch") <=>
           /\ Current(nodeIndex, e, 1) = Bound(e, 1)
           /\ Current(nodeIndex, e, 2) = Bound(e, 2)
           /\ Current(nodeIndex, e, 3) > Bound(e, 3)

\* ------------------------------------------------- drift, further claims
Severities == {"major", "minor", "patch"}

\* the bound version of edge e is equal to or ahead of the target's current
\* version, in the order major, then minor, then patch
NotBehind(index, e) ==
  \/ Bound(e, 1) > Current(index, e, 1)
  \/ /\ Bound(e, 1) = Current(index, e, 1)
     /\ Bound(e, 2) > Current(index, e, 2)
  \/ /\ Bound(e, 1) = Current(index, e, 1)
     /\ Bound(e, 2) = Current(index, e, 2)
     /\ Bound(e, 3) >= Current(index, e, 3)

\* C11: an edge whose bound version is equal to or ahead of the target's
\* current version is classified none and produces no drift item.
C11_NoDriftWhenNotBehind ==
  Reported =>
    \A e \in WellFormedEdges(nodeIndex) :
      NotBehind(nodeIndex, e) =>
        \A sev \in Severities : ~ReportedAs(e.id, e.ref, sev)

\* a version with every missing or non-numeric component replaced by 0
ZeroFill(version) ==
  [i \in 1..3 |-> IF i <= Len(version) /\ version[i].k = "num"
                    THEN version[i] ELSE NumTok(0)]

\* the edges with a resolved target whose two versions are non-empty strings
VersionedEdges(index) ==
  {e \in EdgesOf(index) :
     /\ Has(index, e.ref.target)
     /\ ~Falsy(e.ref.version)
     /\ ~Falsy(Get(index, e.ref.target).version)}

\* C12: a missing or non-numeric version component is compared as 0: an edge
\* is classified as the same edge with those components written as 0 is.
C12_MissingComparedAsZero ==
  Reported =>
    \A e \in VersionedEdges(nodeIndex) :
      \A sev \in Severities :
        ReportedAs(e.id, e.ref, sev) <=>
          compareVersions(ZeroFill(e.ref.version),
                          ZeroFill(Get(nodeIndex, e.ref.target).version)) = sev

\* the references of entity node, in order, and those findDrift classifies
\* as drifted
RefsOf(node) == getEdgeReferences(node)
Drifted(index, ref) ==
  /\ Has(index, ref.target)
  /\ compareVersions(ref.version, Get(index, ref.target).version) # "none"
Dangling(index, ref) == ~Has(index, ref.target)

\* C13: an edge whose target is not in the index yields no drift item, and
\* the other edges of the same entity are still examined and reported.
C13_DanglingEdgesSkipped ==
  Reported =>
    \A i \in 1..Len(nodeIndex) :
      \A r \in 1..Len(RefsOf(nodeIndex[i])) :
        LET ref == RefsOf(nodeIndex[i])[r] IN
          /\ Dangling(nodeIndex, ref) =>
                \A sev \in Severities : ~ReportedAs(nodeIndex[i].id, ref, sev)
          /\ Drifted(nodeIndex, ref) =>
                \E sev \in Severities : ReportedAs(nodeIndex[i].id, ref, sev)

\* C13 witness: an entity whose first edge dangles and whose second edge
\* drifted has been reported with the second edge.
C13_Witness ==
  /\ Reported
  /\ \E i \in 1..Len(nodeIndex) :
       /\ Len(RefsOf(nodeIndex[i])) = 2
       /\ Dangling(nodeIndex, RefsOf(nodeIndex[i])[1])
       /\ Drifted(nodeIndex, RefsOf(nodeIndex[i])[2])
       /\ \E sev \in Severities :
            ReportedAs(nodeIndex[i].id, RefsOf(nodeIndex[i])[2], sev)

\* the drifted references of an entity, in edge order
DriftedRefs(index, node) ==
  SelectSeq(RefsOf(node), LAMBDA ref : Drifted(index, ref))
ItemRef(item) == [target |-> item.targetId, version |-> item.boundVersion]
ReportsOf(id) == {r \in 1..Len(reports) : reports[r].nodeId = id}

\* C14: an entity has a report exactly when at least one of its edges
\* drifted, it has at most one report, and the report holds one item for
\* each drifted edge, in edge order.
C14_OneReportPerDriftedEntity ==
  Reported =>
    \A i \in 1..Len(nodeIndex) :
      LET node == nodeIndex[i]
          drifted == DriftedRefs(nodeIndex, node)
      IN /\ Cardinality(ReportsOf(node.id)) = (IF drifted = <<>> THEN 0 ELSE 1)
         /\ \A r \in ReportsOf(node.id) :
              /\ Len(reports[r].driftItems) = Len(drifted)
              /\ \A d \in 1..Len(drifted) :
                   ItemRef(reports[r].driftItems[d]) = drifted[d]

\* C14 witness: one entity is reported with two drift items while another
\* entity, which has an edge, has no report.
C14_Witness ==
  /\ Reported
  /\ \E r \in 1..Len(reports) : Len(reports[r].driftItems) = 2
  /\ \E i \in 1..Len(nodeIndex) :
       /\ RefsOf(nodeIndex[i]) # <<>>
       /\ ReportsOf(nodeIndex[i].id) = {}

\* ------------------------------------------------------- store, claims
\* the entities stored in the lattice, in the order buildNodeIndex loads them
Stored(latticeRoot) == LoadFiles(AllFiles(latticeRoot))
UniqueIds(latticeRoot) ==
  \A i, j \in 1..Len(Stored(latticeRoot)) :
    i # j => Stored(latticeRoot)[i].id # Stored(latticeRoot)[j].id
Indexed == pc \in {"reported", "traversed"}

\* the references of node to identifier id
RefsTo(node, id) == SelectSeq(RefsOf(node), LAMBDA ref : ref.target = id)

\* in the lattice that the edit cmd left, identifiers are unique and, but for
\* the bumped version, every edge is bound to the current version of its target
BoundBeforeEdit ==
  /\ UniqueIds(lattice)
  /\ \A i, j \in 1..Len(Stored(lattice)) :
       \A r \in 1..Len(RefsOf(Stored(lattice)[i])) :
         LET ref == RefsOf(Stored(lattice)[i])[r]
             target == Stored(lattice)[j]
         IN ref.target = target.id =>
              ref.version = (IF target.id = cmd.id THEN cmd.old ELSE target.version)

\* the drift item expected for an edge to the entity that cmd bumped
BumpItem ==
  [edgeType |-> "edge", targetId |-> cmd.id, boundVersion |-> cmd.old,
   currentVersion |-> bumpVersion(cmd.old, cmd.level), severity |-> cmd.level]

\* C15: from a lattice in which every edge is bound to its target's current
\* version, after one entity's version is bumped the next findDrift returns
\* exactly one report for each entity with an edge to it, with one item per
\* such edge: the target, the old bound version, the new current version and
\* the severity of the bump.
C15_DriftFollowsBump ==
  [][(pc = "edited" /\ pc' = "reported" /\ BoundBeforeEdit) =>
       /\ \A i \in 1..Len(Stored(lattice)) :
            Cardinality({r \in 1..Len(reports') :
                           reports'[r].nodeId = Stored(lattice)[i].id})
              = (IF RefsTo(Stored(lattice)[i], cmd.id) = <<>> THEN 0 ELSE 1)
       /\ \A r \in 1..Len(reports') :
            \E i \in 1..Len(Stored(lattice)) :
              /\ reports'[r].nodeId = Stored(lattice)[i].id
              /\ reports'[r].driftItems =
                   [d \in 1..Len(RefsTo(Stored(lattice)[i], cmd.id)) |-> BumpItem]]_vars

\* C15 witness: findDrift reports two entities, each with one minor item for
\* the same target, bound at 1.0.0 and now at 1.1.0.
C15_Witness ==
  /\ pc = "reported"
  /\ UniqueIds(lattice)
  /\ Len(reports) = 2
  /\ \A r \in 1..Len(reports) :
       /\ Len(reports[r].driftItems) = 1
       /\ reports[r].driftItems[1].targetId = ThxA
       /\ reports[r].driftItems[1].boundVersion = V(1, 0, 0)
       /\ reports[r].driftItems[1].currentVersion = V(1, 1, 0)
       /\ reports[r].driftItems[1].severity = "minor"

\* C16: when the stored entities have pairwise distinct identifiers, the
\* index has as many entries as there are entities, and looking up each
\* entity's identifier gives that entity.
C16_IndexComplete ==
  (Indexed /\ UniqueIds(lattice)) =>
    /\ Len(nodeIndex) = Len(Stored(lattice))
    /\ \A i \in 1..Len(Stored(lattice)) :
         /\ Has(nodeIndex, Stored(lattice)[i].id)
         /\ Get(nodeIndex, Stored(lattice)[i].id) = Stored(lattice)[i]

\* C16 witness: an index built from three entities of three kinds.
C16_Witness ==
  /\ Indexed
  /\ UniqueIds(lattice)
  /\ Len(nodeIndex) = 3
  /\ Cardinality({nodeIndex[i].type : i \in 1..Len(nodeIndex)}) = 3

\* C17: loading a kind directory that does not exist or is empty gives the
\* empty sequence without throwing, and no command that builds the index
\* fails.
C17_MissingDirectoriesTolerated ==
  /\ pc # "failed"
  /\ Indexed =>
       \A k \in 1..Len(Types) :
         (~lattice[Types[k]].exists \/ lattice[Types[k]].files = <<>>) =>
           loadNodesByType(lattice, Types[k]) = [threw |-> FALSE, nodes |-> <<>>]

\* C17 witness: a traversal returned entities from a lattice with a missing
\* directory and an empty one.
C17_Witness ==
  /\ pc = "traversed"
  /\ result # <<>>
  /\ \E k \in 1..Len(Types) : ~lattice[Types[k]].exists
  /\ \E k \in 1..Len(Types) : lattice[Types[k]] = EmptyDir

\* the relationship kinds under which node holds a reference
KindsOf(node, target, version) ==
  {node.edges[b].kind : b \in {c \in 1..Len(node.edges) :
     /\ node.edges[c].isArray
     /\ \E r \in 1..Len(node.edges[c].refs) :
          /\ node.edges[c].refs[r].target = target
          /\ node.edges[c].refs[r].version = version}}

\* C18: every edge recorded on a result entry carries the relationship kind
\* of the bucket it came from.
C18_EdgesKeepKind ==
  Returned =>
    \A i \in 1..Len(result) :
      \A e \in 1..Len(result[i].edges) :
        LET edge == result[i].edges[e]
            holder == IF edge.direction = "outgoing" THEN result[i].node
                      ELSE Get(nodeIndex, edge.target)
            target == IF edge.direction = "outgoing" THEN edge.target
                      ELSE result[i].node.id
        IN edge.type \in KindsOf(holder, target, edge.version)

\* C19: a findDrift run right after an add reports no drift for the edges
\* that the add created.
C19_NewEdgesBoundToCurrent ==
  [][(pc = "added" /\ pc' = "reported" /\ UniqueIds(lattice)) =>
       \A r \in 1..Len(reports') :
         reports'[r].nodeId = cmd.id =>
           \A d \in 1..Len(reports'[r].driftItems) :
             reports'[r].driftItems[d].targetId \notin cmd.targets]_vars

\* C20: no two stored entities share an identifier.
C20_UniqueIdentifiers == UniqueIds(lattice)


\* ------------------------------------------------- traversal, further claims
EntryOf(res, id) == CHOOSE i \in 1..Len(res) : res[i].node.id = id
Resolved(index, refs) == SelectSeq(refs, LAMBDA ref : Has(index, ref.target))
Unresolved(index, refs) == SelectSeq(refs, LAMBDA ref : ~Has(index, ref.target))

\* C23: a reference that does not resolve never stops a traversal: the call
\* returns, every result entry is the index's entity of that identifier with
\* all its incident edges of the chosen direction attached, and the start's
\* references that do resolve are followed (their targets are in the result)
\* whatever unresolved references stand before them.
C23_DanglingTolerated ==
  Returned =>
    /\ \A i \in 1..Len(result) :
         /\ Has(nodeIndex, result[i].node.id)
         /\ result[i].node = Get(nodeIndex, result[i].node.id)
         /\ result[i].edges = OwnEdges(nodeIndex, result[i].node, direction)
    /\ (Has(nodeIndex, startId) /\ maxDepth >= 1 /\ direction # "upstream") =>
         LET refs == Resolved(nodeIndex, RefsOf(Get(nodeIndex, startId)))
         IN \A r \in 1..Len(refs) : refs[r].target \in IdSet(result)

\* C23 witness: the start's first reference is unresolved, a later one
\* resolves, and the traversal returned the later one's target.
C23_Witness ==
  /\ Returned
  /\ Has(nodeIndex, startId)
  /\ LET refs == RefsOf(Get(nodeIndex, startId))
     IN /\ Len(refs) = 2
        /\ ~Has(nodeIndex, refs[1].target)
        /\ refs[2].target # startId
        /\ refs[2].target \in IdSet(result)
        /\ \E e \in 1..Len(result[EntryOf(result, startId)].edges) :
             result[EntryOf(result, startId)].edges[e].target = refs[1].target

\* the identifiers the references of entity e target
TargetsOf(e) == {RefsOf(e)[r].target : r \in 1..Len(RefsOf(e))}
EdgeDirections(res) ==
  UNION {{res[i].edges[e].direction : e \in 1..Len(res[i].edges)} : i \in 1..Len(res)}

\* C24: downstream, every recorded edge is outgoing and an entity other than
\* the start is in the result only as the target of a reference of a result
\* entity; upstream, every recorded edge is incoming, an entity other than
\* the start is in the result only as the owner of a reference to a result
\* entity, and each result entity has every other indexed entity's
\* references to it recorded as incoming edges.
C24_DirectionRespected ==
  Returned =>
    /\ direction = "downstream" =>
         /\ EdgeDirections(result) \subseteq {"outgoing"}
         /\ \A i \in 1..Len(result) :
              result[i].node.id # startId =>
                \E j \in 1..Len(result) : result[i].node.id \in TargetsOf(result[j].node)
    /\ direction = "upstream" =>
         /\ EdgeDirections(result) \subseteq {"incoming"}
         /\ \A i \in 1..Len(result) :
              /\ result[i].node.id # startId =>
                   TargetsOf(result[i].node) \cap IdSet(result) # {}
              /\ result[i].edges = OwnIncoming(nodeIndex, result[i].node)

\* C24 witness: an upstream traversal returned the start and an entity that
\* refers to it, the reference recorded as an incoming edge of the start.
C24_Witness ==
  /\ Returned
  /\ direction = "upstream"
  /\ Len(result) >= 2
  /\ \E e \in 1..Len(result[EntryOf(result, startId)].edges) :
       result[EntryOf(result, startId)].edges[e].target \in IdSet(result) \ {startId}

HasEdge(entry, dir, target, version) ==
  \E e \in 1..Len(entry.edges) :
    /\ entry.edges[e].direction = dir
    /\ entry.edges[e].target = target
    /\ entry.edges[e].version = version

\* C25: in both mode every reference whose owner and target are both in the
\* result is recorded as an outgoing edge on the owner's entry and as an
\* incoming edge on the target's entry, with its bound version; a reference
\* of an entity to itself included.
C25_BothRecordsTwice ==
  (Returned /\ direction = "both") =>
    \A i \in 1..Len(result) :
      \A r \in 1..Len(RefsOf(result[i].node)) :
        LET ref == RefsOf(result[i].node)[r] IN
        ref.target \in IdSet(result) =>
          /\ HasEdge(result[i], "outgoing", ref.target, ref.version)
          /\ HasEdge(result[EntryOf(result, ref.target)], "incoming",
                     result[i].node.id, ref.version)

\* C26: the other endpoint of every edge recorded on a result entry is an
\* entity of the result.
C26_EdgesJoinVisited ==
  Returned =>
    \A i \in 1..Len(result) :
      \A e \in 1..Len(result[i].edges) :
        result[i].edges[e].target \in IdSet(result)

\* ------------------------------------------------ commands, further claims
DriftRan == cmd.cmd = "drift" /\ pc = "reported"

\* C21: when findDrift returns, lattice drift --check exits with a non-zero
\* status exactly when there is at least one report, and lattice drift
\* without --check exits with status zero whatever the reports.
C21_CheckExitStatus ==
  DriftRan =>
    /\ cmd.check => ((exitCode # 0) <=> (Len(reports) >= 1))
    /\ ~cmd.check => exitCode = 0

\* C21 witness: lattice drift --check found a report and exited non-zero.
C21_Witness ==
  /\ DriftRan
  /\ cmd.check
  /\ Len(reports) >= 1
  /\ exitCode # 0


\* the files of the lattice that hold an empty document
NullFiles(latticeRoot) ==
  {i \in 1..Len(AllFiles(latticeRoot)) : AllFiles(latticeRoot)[i].yaml = "null"}
\* the place of the last loaded entity with identifier id
LastLoaded(loaded, id) ==
  CHOOSE i \in 1..Len(loaded) :
    /\ loaded[i].id = id
    /\ \A j \in (i + 1)..Len(loaded) : loaded[j].id # id

\* C27: a drift command on a lattice whose files all hold entities (or text
\* the parser rejects) does not fail, however many loaded entities share an
\* identifier; the index has one entry per distinct identifier, and the
\* entry is the entity loaded last under that identifier, the kinds loaded
\* in the order sources, theses, requirements, implementations.
C27_LastWriteWins ==
  (cmd.cmd = "drift" /\ NullFiles(lattice) = {}) =>
    /\ pc = "reported"
    /\ Len(nodeIndex) = Cardinality({Stored(lattice)[i].id : i \in 1..Len(Stored(lattice))})
    /\ \A i \in 1..Len(Stored(lattice)) :
         /\ Has(nodeIndex, Stored(lattice)[i].id)
         /\ Get(nodeIndex, Stored(lattice)[i].id) =
              Stored(lattice)[LastLoaded(Stored(lattice), Stored(lattice)[i].id)]

\* C27 witness: two loaded entities of different kinds share an identifier
\* and the index holds the later one.
C27_Witness ==
  /\ cmd.cmd = "drift"
  /\ pc = "reported"
  /\ \E i, j \in 1..Len(Stored(lattice)) :
       /\ i < j
       /\ Stored(lattice)[i].id = Stored(lattice)[j].id
       /\ Stored(lattice)[i].type # Stored(lattice)[j].type
       /\ Get(nodeIndex, Stored(lattice)[i].id) = Stored(lattice)[j]

\* the files of the lattice that cannot be turned into an entity
BadFiles(latticeRoot) ==
  {i \in 1..Len(AllFiles(latticeRoot)) : AllFiles(latticeRoot)[i].yaml # "entity"}
ValidNodes(latticeRoot) ==
  {AllFiles(latticeRoot)[i].node :
     i \in {j \in 1..Len(AllFiles(latticeRoot)) : AllFiles(latticeRoot)[j].yaml = "entity"}}

\* C28: with a single .yaml file that cannot be turned into an entity (text
\* the parser rejects, or an empty document), the index is built without
\* raising and holds every entity of the other files.
C28_BadFileSkipped ==
  (cmd.cmd = "drift" /\ Cardinality(BadFiles(lattice)) = 1) =>
    /\ pc = "reported"
    /\ \A node \in ValidNodes(lattice) : Has(nodeIndex, node.id)

Queried == pc \in {"reported", "traversed", "failed"}

C30_AddKeepsStored ==
  [][(pc' = "added" /\ NullFiles(lattice) = {}
        /\ ~Has(buildNodeIndex(lattice).index, cmd'.id)) =>
       LET before == buildNodeIndex(lattice).index
           after == buildNodeIndex(lattice').index
       IN /\ \A k \in 1..Len(before) :
               /\ Has(after, before[k].id)
               /\ Get(after, before[k].id) = before[k]
          /\ Has(after, cmd'.id)]_vars

\* ------------------------------------------------------- export, claims
Exported == pc = "exported"
Shown(nodes) == SelectSeq(nodes, LAMBDA node : node.visibility # "internal")
WithoutInternal(latticeData) ==
  [sources |-> Shown(latticeData.sources), theses |-> Shown(latticeData.theses),
   requirements |-> Shown(latticeData.requirements),
   implementations |-> Shown(latticeData.implementations)]
Unmark(nodes) == [i \in 1..Len(nodes) |-> [nodes[i] EXCEPT !.visibility = "undefined"]]
Unmarked(latticeData) ==
  [sources |-> Unmark(latticeData.sources), theses |-> Unmark(latticeData.theses),
   requirements |-> Unmark(latticeData.requirements),
   implementations |-> Unmark(latticeData.implementations)]

\* C22: with includeInternal false or unset the document is the one the
\* same data gives once every entity marked internal (source, thesis,
\* requirement, implementation) is removed, for each audience; with
\* includeInternal true the document is the one the data gives with no
\* entity marked internal.
C22_InternalHidden ==
  Exported =>
    /\ ~IncludeInternal(exportOptions) =>
         output = exportNarrative(WithoutInternal(data), exportOptions)
    /\ IncludeInternal(exportOptions) =>
         output = exportNarrative(Unmarked(data), exportOptions)
====
